---- MODULE Spec2Model ----
(***************************************************************************)
(* Model of planqtn/symplectic.py: the symplectic vector helpers (sslice,  *)
(* replace_with_op_on_indices, sconcat, sstr, to_symplectic), the          *)
(* bit-packed GF(2) rank kernel rank_gf2 and the matching ratio            *)
(* count_matching_stabilizers_ratio_all_pairs built on it.                 *)
(***************************************************************************)
EXTENDS Integers, Sequences, FiniteSets, TLC

VARIABLES
    pc,          \* position of the modelled call
    matrix,      \* rank_gf2: the argument, [m, n, a]
    packed,      \* rank_gf2: the bit-packed working copy (rows of bytes)
    rank,        \* rank_gf2: the running pivot-row counter
    col,         \* rank_gf2: number of columns the loop has processed
    target,      \* replace_with_op_on_indices / sslice: the vector
    indices,     \* replace_with_op_on_indices / sslice: the qubit indices
    op,          \* replace_with_op_on_indices: the operator written
    ops,         \* sconcat: the three operands <<a, b, c>>
    h,           \* sstr: the matrix rendered
    pte1,        \* matching ratio: first component  [h, n]
    pte2,        \* matching ratio: second component [h, n]
    join_legs1,  \* matching ratio: legs of pte1
    join_legs2,  \* matching ratio: legs of pte2
    stacked,     \* matching ratio: the stacked matrix handed to rank_gf2
    result       \* value returned (or the error raised) by the call

vars == <<pc, matrix, packed, rank, col, target, indices, op, ops, h,
          pte1, pte2, join_legs1, join_legs2, stacked, result>>

rankVars == <<matrix, packed, rank, col>>
vecVars == <<target, indices, op>>
ratioVars == <<pte1, pte2, join_legs1, join_legs2, stacked>>

----------------------------------------------------------------------------
(* Bounds of the model *)

MaxQubits == 2      \* qubits of a sslice / replace_with_op_on_indices target
MaxTotalQubits == 3 \* qubits of the three sconcat operands together
MaxStrRows == 2     \* rows of a matrix rendered by sstr
MaxStrQubits == 2   \* qubits (half the columns) of a matrix rendered by sstr
MaxPteRows1 == 2    \* rows of pte1.h
MaxPteRows2 == 1    \* rows of pte2.h
MaxLegs == 2        \* length of a join-leg list
MaxRows == 3        \* rows of a rank_gf2 input
MaxCols == 2        \* free (non-padding) columns of a rank_gf2 input
MaxFairRows == 2    \* rows of a rank_gf2 input in the fair specification
MaxFairCols == 2    \* free columns of a rank_gf2 input in the fair specification
Pads == {0, 7}      \* leading all-zero columns: 7 pushes the free columns
                    \* across the boundary between packed byte 0 and byte 1

Bit == {0, 1}
None == "None"
NoMatrix == [m |-> 0, n |-> 0, a |-> << >>]

----------------------------------------------------------------------------
(* Generic helpers *)

RECURSIVE Pow2(_)
Pow2(k) == IF k = 0 THEN 1 ELSE 2 * Pow2(k - 1)

\* mask = 1 << bit, for the bit index 0..7 of a column within its byte
MaskOf(bit) == <<1, 2, 4, 8, 16, 32, 64, 128>>[bit + 1]

\* x & mask for a single-bit mask: mask if x has that bit, else 0
AndMask(x, mask) == ((x \div mask) % 2) * mask

RECURSIVE XorBits(_, _)
XorBits(x, y) ==
    IF x = 0 THEN y
    ELSE IF y = 0 THEN x
    ELSE ((x + y) % 2) + 2 * XorBits(x \div 2, y \div 2)

MinOf(S) == CHOOSE x \in S : \A y \in S : x <= y

\* Python's s[lo:hi] for 0 <= lo, hi: bounds past the end are clamped
PySlice(s, lo, hi) ==
    LET l == IF lo > Len(s) THEN Len(s) ELSE lo
        u == IF hi > Len(s) THEN Len(s) ELSE hi
    IN  IF u <= l THEN << >> ELSE SubSeq(s, l + 1, u)

\* all sequences over S of length exactly k / at most k
SeqsOfLen(S, k) == [1..k -> S]
SeqsUpTo(S, k) == UNION {SeqsOfLen(S, j) : j \in 0..k}

\* m x (pad + k) matrix whose first pad columns are zero
PadLeft(M, pad) ==
    [m |-> M.m, n |-> pad + M.n,
     a |-> [i \in 1..M.m |-> [j \in 1..(pad + M.n) |-> IF j <= pad THEN 0 ELSE M.a[i][j - pad]]]]

----------------------------------------------------------------------------
(* rank_gf2 *)

NumWords(n) == (n + 7) \div 8

RECURSIVE PackWordFrom(_, _, _)
PackWordFrom(row, w, b) ==
    IF b > 7 \/ 8 * w + b >= Len(row) THEN 0
    ELSE row[8 * w + b + 1] * MaskOf(b) + PackWordFrom(row, w, b + 1)

\* np.packbits(matrix, axis=1, bitorder="little")
packbits(M) ==
    [i \in 1..M.m |-> [w \in 1..NumWords(M.n) |-> PackWordFrom(M.a[i], w - 1, 0)]]

\* variant: the search scans packed[:, word], from row 0
PivotRows_FromTop(p, r, word, mask) ==
    {i \in 0..(Len(p) - r - 1) : AndMask(p[i + 1][word + 1], mask) # 0}

\* variant: the search scans packed[rank + 1:, word], past the pivot row
PivotRows_SkipFirst(p, r, word, mask) ==
    {i \in 1..(Len(p) - r - 1) : AndMask(p[r + i + 1][word + 1], mask) # 0}

\* np.where(packed[rank:, word] & mask)[0]: offsets relative to rank
PivotRows(p, r, word, mask) ==
    {i \in 0..(Len(p) - r - 1) : AndMask(p[r + i + 1][word + 1], mask) # 0}

\* packed[[rank, pivot]] = packed[[pivot, rank]]
SwapRows(p, r, pivot) ==
    [i \in 1..Len(p) |->
        IF i = r + 1 THEN p[pivot + 1]
        ELSE IF i = pivot + 1 THEN p[r + 1]
        ELSE p[i]]

XorRow(x, y) == [w \in 1..Len(x) |-> XorBits(x[w], y[w])]

\* variant: only the current byte is XOR-ed, packed[i, word] ^= packed[rank, word]
EliminateBelow_WordOnly(p, r, word, mask) ==
    [i \in 1..Len(p) |->
        IF i - 1 >= r + 1 /\ AndMask(p[i][word + 1], mask) # 0
        THEN [p[i] EXCEPT ![word + 1] = XorBits(p[i][word + 1], p[r + 1][word + 1])]
        ELSE p[i]]

\* variant: the elimination starts at range(rank + 2, m)
EliminateBelow_SkipNext(p, r, word, mask) ==
    [i \in 1..Len(p) |->
        IF i - 1 >= r + 2 /\ AndMask(p[i][word + 1], mask) # 0
        THEN XorRow(p[i], p[r + 1])
        ELSE p[i]]

\* for i in range(rank + 1, m): if packed[i, word] & mask: packed[i, :] ^= packed[rank, :]
EliminateBelow(p, r, word, mask) ==
    [i \in 1..Len(p) |->
        IF i - 1 >= r + 1 /\ AndMask(p[i][word + 1], mask) # 0
        THEN XorRow(p[i], p[r + 1])
        ELSE p[i]]

\* the body of one iteration that found a pivot, up to rank += 1
PivotBody(p, r, c) ==
    LET word == c \div 8
        bit == c % 8
        mask == MaskOf(bit)
        pivot == MinOf(PivotRows(p, r, word, mask)) + r
        swapped == IF pivot # r THEN SwapRows(p, r, pivot) ELSE p
    IN  EliminateBelow(swapped, r, word, mask)

HasPivot(p, r, c) == PivotRows(p, r, c \div 8, MaskOf(c % 8)) # {}

\* the loop of rank_gf2 from column c on, as a function
RECURSIVE RankLoop(_, _, _, _, _)
RankLoop(p, r, c, m, n) ==
    IF c >= n THEN r
    ELSE IF ~HasPivot(p, r, c) THEN RankLoop(p, r, c + 1, m, n)
    ELSE IF r + 1 = m THEN r + 1
    ELSE RankLoop(PivotBody(p, r, c), r + 1, c + 1, m, n)

rank_gf2(M) == RankLoop(packbits(M), 0, 0, M.m, M.n)

----------------------------------------------------------------------------
(* rank_gf2 as a state machine over the column loop *)

\* M is an input of the model: up to maxRows rows, up to maxCols free
\* columns after the padding columns
RankInput(M, maxRows, maxCols) ==
    \E m \in 0..maxRows, k \in 0..maxCols, pad \in Pads :
        \E rows \in SeqsOfLen(SeqsOfLen(Bit, k), m) :
            M = PadLeft([m |-> m, n |-> k, a |-> rows], pad)

IdleRank == matrix = NoMatrix /\ packed = << >> /\ rank = 0 /\ col = 0
IdleVec == target = << >> /\ indices = << >> /\ op = << >>
IdleConcat == ops = << >>
IdleStr == h = NoMatrix
IdleRatio ==
    /\ pte1 = None /\ pte2 = None
    /\ join_legs1 = << >> /\ join_legs2 = << >>
    /\ stacked = None

InitRank ==
    /\ pc = "start"
    /\ RankInput(matrix, MaxRows, MaxCols)
    /\ packed = << >>
    /\ rank = 0
    /\ col = 0
    /\ result = None
    /\ IdleVec /\ IdleConcat /\ IdleStr /\ IdleRatio

InitRankFair ==
    /\ pc = "start"
    /\ RankInput(matrix, MaxFairRows, MaxFairCols)
    /\ packed = << >>
    /\ rank = 0
    /\ col = 0
    /\ result = None
    /\ IdleVec /\ IdleConcat /\ IdleStr /\ IdleRatio

\* m, n = matrix.shape; packed = np.packbits(...); rank = 0; enter the loop
Pack ==
    /\ pc = "start"
    /\ packed' = packbits(matrix)
    /\ rank' = 0
    /\ col' = 0
    /\ pc' = IF matrix.n = 0 THEN "done" ELSE "loop"
    /\ result' = IF matrix.n = 0 THEN 0 ELSE None
    /\ UNCHANGED <<matrix, vecVars, ops, h, ratioVars>>

\* an iteration in which pivot_rows.size == 0: continue
NoPivot ==
    /\ pc = "loop"
    /\ ~HasPivot(packed, rank, col)
    /\ col' = col + 1
    /\ pc' = IF col + 1 = matrix.n THEN "done" ELSE "loop"
    /\ result' = IF col + 1 = matrix.n THEN rank ELSE None
    /\ UNCHANGED <<matrix, packed, rank, vecVars, ops, h, ratioVars>>

\* an iteration that finds a pivot: swap, eliminate, rank += 1, maybe break
Pivot ==
    /\ pc = "loop"
    /\ HasPivot(packed, rank, col)
    /\ packed' = PivotBody(packed, rank, col)
    /\ rank' = rank + 1
    /\ col' = col + 1
    /\ pc' = IF rank + 1 = matrix.m \/ col + 1 = matrix.n THEN "done" ELSE "loop"
    /\ result' = IF rank + 1 = matrix.m \/ col + 1 = matrix.n THEN rank + 1 ELSE None
    /\ UNCHANGED <<matrix, vecVars, ops, h, ratioVars>>

NextRank == Pack \/ NoPivot \/ Pivot

SpecRank == InitRank /\ [][NextRank]_vars

\* the loop is a sequential for loop: every iteration that can run does run
FairSpecRank == InitRankFair /\ [][NextRank]_vars /\ WF_vars(NextRank)

----------------------------------------------------------------------------
(* Linear algebra over GF(2), used to state the properties of rank_gf2 *)

\* the 0/1 rows a packed matrix stands for (its first n bits, LSB first)
Unpack(p, n) ==
    [i \in 1..Len(p) |-> [j \in 1..n |-> (p[i][((j - 1) \div 8) + 1] \div MaskOf((j - 1) % 8)) % 2]]

ZeroVec(n) == [j \in 1..n |-> 0]

XorVec(x, y) == [j \in 1..Len(x) |-> (x[j] + y[j]) % 2]

\* XOR of the rows with index in S
RECURSIVE XorAll(_, _, _)
XorAll(rows, S, n) ==
    IF S = {} THEN ZeroVec(n)
    ELSE LET i == CHOOSE x \in S : TRUE
         IN  XorVec(rows[i], XorAll(rows, S \ {i}, n))

RowSpace(rows, n) == {XorAll(rows, S, n) : S \in SUBSET (1..Len(rows))}

Independent(rows, S, n) ==
    \A T \in SUBSET S : T # {} => XorAll(rows, T, n) # ZeroVec(n)

\* size of a largest linearly independent set of rows
GF2Rank(rows, n) ==
    LET sizes == {Cardinality(S) : S \in {T \in SUBSET (1..Len(rows)) : Independent(rows, T, n)}}
    IN  CHOOSE k \in sizes : \A l \in sizes : l <= k

IsZeroMatrix(M) == \A i \in 1..M.m : M.a[i] = ZeroVec(M.n)

IsIdentity(M) ==
    /\ M.m = M.n
    /\ \A i \in 1..M.m : \A j \in 1..M.n : M.a[i][j] = (IF i = j THEN 1 ELSE 0)

RowPermutations(m) == {f \in [1..m -> 1..m] : \A i, j \in 1..m : f[i] = f[j] => i = j}

PermuteRows(M, f) == [M EXCEPT !.a = [i \in 1..M.m |-> M.a[f[i]]]]

\* row i XOR-ed into row j
XorRowInto(M, i, j) == [M EXCEPT !.a[j] = XorVec(M.a[j], M.a[i])]

AppendRow(M, i) == [M EXCEPT !.m = M.m + 1, !.a = Append(M.a, M.a[i])]

\* the working matrix of the loop as 0/1 rows
Work == Unpack(packed, matrix.n)

\* a row at index >= pivot_row has the bit of the current column set
BitSetAtOrBelow == \E i \in (rank + 1)..matrix.m : Work[i][col + 1] = 1

----------------------------------------------------------------------------
(* Properties of rank_gf2 *)

\* C1: for every 0/1 matrix (m = 0, n = 0 and n not a multiple of 8
\* included) rank_gf2 returns the size of a largest linearly independent set
\* of rows; 0 for an all-zero matrix and n for the n x n identity.
C1_RankIsGF2Rank ==
    pc = "done" =>
        /\ result = GF2Rank(matrix.a, matrix.n)
        /\ rank_gf2(matrix) = result
        /\ IsZeroMatrix(matrix) => result = 0
        /\ IsIdentity(matrix) => result = matrix.n

C1_Witness ==
    /\ pc = "done"
    /\ matrix.m = 3 /\ matrix.n = 9
    /\ result = 2
    /\ ~IsZeroMatrix(matrix)

\* C2: the rank returned is unchanged by permuting the rows, by XOR-ing one
\* row into a different row, and, for a full-rank square matrix, by
\* appending a copy of one of its rows.
C2_RowOperationInvariance ==
    pc = "done" =>
        /\ \A f \in RowPermutations(matrix.m) : rank_gf2(PermuteRows(matrix, f)) = result
        /\ \A i, j \in 1..matrix.m : i # j => rank_gf2(XorRowInto(matrix, i, j)) = result
        /\ (matrix.m = matrix.n /\ result = matrix.m) =>
              \A i \in 1..matrix.m : rank_gf2(AppendRow(matrix, i)) = result

C2_Witness ==
    /\ pc = "done"
    /\ matrix.m = 2 /\ matrix.n = 2
    /\ result = 2
    /\ ~IsIdentity(matrix)

\* C9 as stated: the loop never revisits a column, a column without a set
\* bit at or below pivot_row changes nothing, a column with one adds exactly
\* 1 to pivot_row, pivot_row <= min(m, columns processed), and the loop has
\* stopped exactly when all n columns are processed or pivot_row = m.
C9_StopsExactlyWhen ==
    pc # "start" =>
        /\ rank <= matrix.m /\ rank <= col /\ col <= matrix.n
        /\ (pc = "done") <=> (col = matrix.n \/ rank = matrix.m)

C9_StepShape ==
    pc = "loop" =>
        /\ col' = col + 1
        /\ ~BitSetAtOrBelow => (rank' = rank /\ packed' = packed)
        /\ BitSetAtOrBelow => rank' = rank + 1

C9_Bounds ==
    pc # "start" =>
        /\ rank <= matrix.m /\ rank <= col /\ col <= matrix.n
        /\ pc = "done" => (col = matrix.n \/ rank = matrix.m) /\ result = rank
        /\ pc = "loop" => col < matrix.n /\ (rank < matrix.m \/ matrix.m = 0)

\* C9 (amended): the loop always terminates, each step processes the next
\* column, leaves pivot_row and the rows alone when no row at or below
\* pivot_row has the bit and adds 1 to pivot_row otherwise, keeps
\* pivot_row <= min(m, columns processed), and stops exactly when all
\* columns are processed or an increment makes pivot_row equal to m (with
\* m = 0 it runs through all n columns).
C9_LoopTerminates ==
    /\ []C9_Bounds
    /\ [][C9_StepShape]_vars
    /\ <>(pc = "done")

C9_Witness ==
    /\ pc = "done"
    /\ matrix.m = 2 /\ matrix.n = 9
    /\ rank = 2 /\ col = 9

\* rows at index >= pivot_row are zero in every processed column
ZeroBelow ==
    \A i \in (rank + 1)..matrix.m : \A j \in 1..col : Work[i][j] = 0

C10_Echelon ==
    pc # "start" =>
        /\ ZeroBelow
        /\ Independent(Work, 1..rank, matrix.n)
        /\ RowSpace(Work, matrix.n) = RowSpace(matrix.a, matrix.n)

C10_RowsAboveKept ==
    pc = "loop" => \A i \in 1..rank : packed'[i] = packed[i]

\* C10: after each column, every row at index >= pivot_row is zero in the
\* processed columns, the rows above pivot_row are linearly independent, the
\* row space of the working matrix is that of the input, and a step changes
\* no bit of a row above pivot_row.
C10_EchelonInvariant ==
    /\ []C10_Echelon
    /\ [][C10_RowsAboveKept]_vars

C10_Witness ==
    /\ pc = "loop"
    /\ matrix.m = 3 /\ rank = 1 /\ col = 8
    /\ Work # matrix.a
    /\ Work[3] # ZeroVec(matrix.n)

----------------------------------------------------------------------------
(* sslice and replace_with_op_on_indices *)

\* outcome of a call: the value returned, or the exception raised
Returned(v) == [raised |-> "", value |-> v]
Raised(e) == [raised |-> e, value |-> << >>]

\* sslice, list branch: op[indices] followed by op[indices + n]
sslice(v, idx) ==
    LET n == Len(v) \div 2
    IN  IF Len(idx) = 0 THEN << >>
        ELSE [k \in 1..(2 * Len(idx)) |->
                IF k <= Len(idx) THEN v[idx[k] + 1]
                ELSE v[idx[k - Len(idx)] + n + 1]]

\* res[pos] = vals: fancy-index assignment, a later duplicate position wins
AssignAt(res, pos, vals) ==
    [p \in 1..Len(res) |->
        LET ks == {k \in 1..Len(pos) : pos[k] + 1 = p}
        IN  IF ks = {} THEN res[p]
            ELSE vals[CHOOSE k \in ks : \A l \in ks : l <= k]]

\* variant: n taken from the target, n = len(target) // 2
ZOffset_FromTarget(o, t) == Len(t) \div 2

\* n = len(op) // 2
ZOffset(o, t) == Len(o) \div 2

\* replace_with_op_on_indices; with an empty index list np.array(indices) + n
\* is a float array and indexing with it raises IndexError
replace_with_op_on_indices(idx, o, t) ==
    LET m == Len(idx)
        n == ZOffset(o, t)
        res1 == AssignAt(t, idx, PySlice(o, 0, m))
        zpos == [k \in 1..m |-> idx[k] + n]
    IN  IF m = 0 THEN Raised("IndexError")
        ELSE Returned(AssignAt(res1, zpos, PySlice(o, m, Len(o))))

\* index lists without duplicates over the qubits 0..n-1
DistinctIndexLists(n) ==
    {s \in SeqsUpTo(0..(n - 1), n) : \A i, j \in 1..Len(s) : s[i] = s[j] => i = j}

InitVec ==
    /\ pc = "start"
    /\ \E n \in 0..MaxQubits :
          /\ target \in SeqsOfLen(Bit, 2 * n)
          /\ indices \in DistinctIndexLists(n)
    /\ op \in SeqsOfLen(Bit, 2 * Len(indices))
    /\ result = None
    /\ IdleRank /\ IdleConcat /\ IdleStr /\ IdleRatio

\* op = sslice(target, indices)
Slice ==
    /\ pc = "start"
    /\ op' = sslice(target, indices)
    /\ pc' = "sliced"
    /\ UNCHANGED <<rankVars, target, indices, ops, h, ratioVars, result>>

\* replace_with_op_on_indices(indices, op, target) with an op of the caller
Replace ==
    /\ pc = "start"
    /\ result' = replace_with_op_on_indices(indices, op, target)
    /\ pc' = "replaced"
    /\ UNCHANGED <<rankVars, vecVars, ops, h, ratioVars>>

\* replace_with_op_on_indices(indices, sslice(target, indices), target)
ReplaceSliced ==
    /\ pc = "sliced"
    /\ result' = replace_with_op_on_indices(indices, op, target)
    /\ pc' = "roundtrip"
    /\ UNCHANGED <<rankVars, vecVars, ops, h, ratioVars>>

NextVec == Slice \/ Replace \/ ReplaceSliced

SpecVec == InitVec /\ [][NextVec]_vars

\* C3: replacing the slice of v at a duplicate-free index list (of any
\* length m <= n) back into v at the same indices gives v.
C3_RoundTrip == pc = "roundtrip" => result = Returned(target)

\* what C4 says the replaced vector is, with N = len(target) // 2
ReplacedAsClaimed(idx, o, t) ==
    LET m == Len(idx)
        N == Len(t) \div 2
    IN  [p \in 1..Len(t) |->
            IF \E k \in 1..m : idx[k] + 1 = p
            THEN o[CHOOSE k \in 1..m : idx[k] + 1 = p]
            ELSE IF \E k \in 1..m : N + idx[k] + 1 = p
            THEN o[m + (CHOOSE k \in 1..m : N + idx[k] + 1 = p)]
            ELSE t[p]]

C4_Written ==
    pc = "replaced" => result = Returned(ReplacedAsClaimed(indices, op, target))

\* C4: replace_with_op_on_indices returns r with r[indices[k]] = op[k] and
\* r[N + indices[k]] = op[m + k], N half the target's length, r equal to the
\* target elsewhere, and leaves the target unmodified.
C4_ReplaceWritesAtIndices ==
    /\ []C4_Written
    /\ [][target' = target]_vars

----------------------------------------------------------------------------
(* sconcat *)

\* variant: every operand is split at the first operand's n
HalfOf_First(os, i) == Len(os[1]) \div 2

\* ns = [len(op) // 2 for op in ops]
HalfOf(os, i) == Len(os[i]) \div 2

RECURSIVE XParts(_, _)
\* np.concatenate([op[:n] for n, op in zip(ns, ops)]), operands i..
XParts(os, i) ==
    IF i > Len(os) THEN << >>
    ELSE PySlice(os[i], 0, HalfOf(os, i)) \o XParts(os, i + 1)

RECURSIVE ZParts(_, _)
\* np.concatenate([op[n:] for n, op in zip(ns, ops)]), operands i..
ZParts(os, i) ==
    IF i > Len(os) THEN << >>
    ELSE PySlice(os[i], HalfOf(os, i), Len(os[i])) \o ZParts(os, i + 1)

\* tuple(np.hstack([X part, Z part]))
sconcat(os) == XParts(os, 1) \o ZParts(os, 1)

\* symplectic vectors of n qubits
Vectors(n) == SeqsOfLen(Bit, 2 * n)

InitConcat ==
    /\ pc = "start"
    /\ \E na, nb, nc \in 0..MaxTotalQubits :
          /\ na + nb + nc <= MaxTotalQubits
          /\ \E a \in Vectors(na), b \in Vectors(nb), c \in Vectors(nc) : ops = <<a, b, c>>
    /\ result = [left |-> << >>, right |-> << >>]
    /\ IdleRank /\ IdleVec /\ IdleStr /\ IdleRatio

\* sconcat(sconcat(a, b), c)
ConcatLeft ==
    /\ pc \in {"start", "right"}
    /\ result' = [result EXCEPT !.left = sconcat(<<sconcat(<<ops[1], ops[2]>>), ops[3]>>)]
    /\ pc' = IF pc = "start" THEN "left" ELSE "done"
    /\ UNCHANGED <<rankVars, vecVars, ops, h, ratioVars>>

\* sconcat(a, sconcat(b, c))
ConcatRight ==
    /\ pc \in {"start", "left"}
    /\ result' = [result EXCEPT !.right = sconcat(<<ops[1], sconcat(<<ops[2], ops[3]>>)>>)]
    /\ pc' = IF pc = "start" THEN "right" ELSE "done"
    /\ UNCHANGED <<rankVars, vecVars, ops, h, ratioVars>>

NextConcat == ConcatLeft \/ ConcatRight

SpecConcat == InitConcat /\ [][NextConcat]_vars

\* first / second half of a symplectic vector
XPart(v) == [i \in 1..(Len(v) \div 2) |-> v[i]]
ZPart(v) == [i \in 1..(Len(v) \div 2) |-> v[(Len(v) \div 2) + i]]

\* C8: sconcat(sconcat(a, b), c) = sconcat(a, sconcat(b, c)) for operands of
\* any (also zero, also different) qubit counts, and both are the X-parts of
\* a, b, c followed by the Z-parts of a, b, c.
C8_ConcatAssociative ==
    pc = "done" =>
        /\ result.left = result.right
        /\ result.left = XPart(ops[1]) \o XPart(ops[2]) \o XPart(ops[3])
                         \o ZPart(ops[1]) \o ZPart(ops[2]) \o ZPart(ops[3])

C8_Witness ==
    /\ pc = "done"
    /\ Len(ops[1]) = 2 /\ Len(ops[2]) = 4 /\ Len(ops[3]) = 0
    /\ ops[1] = <<0, 1>> /\ ops[2] = <<1, 0, 0, 1>>
    /\ result.left = <<0, 1, 0, 1, 0, 1>>

----------------------------------------------------------------------------
(* to_symplectic and sstr *)

\* variant: the Z columns (1::2) are taken first
to_symplectic_ZFirst(M) ==
    LET nz == M.n \div 2
    IN  [M EXCEPT !.a = [i \in 1..M.m |->
            [j \in 1..M.n |-> IF j <= nz THEN M.a[i][2 * j]
                              ELSE M.a[i][2 * (j - nz) - 1]]]]

\* x_bits = matrix[:, 0::2]; z_bits = matrix[:, 1::2]; concatenate on axis 1
to_symplectic(M) ==
    LET nx == (M.n + 1) \div 2
    IN  [M EXCEPT !.a = [i \in 1..M.m |->
            [j \in 1..M.n |-> IF j <= nx THEN M.a[i][2 * j - 1]
                              ELSE M.a[i][2 * (j - nx)]]]]

\* variant: the two characters are swapped, "1_"[int(b)]
BitChar_Swapped(b) == IF b = 0 THEN "1" ELSE "_"

\* "_1"[int(b)]
BitChar(b) == IF b = 0 THEN "_" ELSE "1"

\* "".join("_1"[int(b)] for b in row[:n]) + "|" + "".join(... for b in row[n:])
RowStr(row, n) ==
    [j \in 1..Len(PySlice(row, 0, n)) |-> BitChar(row[j])]
    \o <<"|">>
    \o [j \in 1..Len(PySlice(row, n, Len(row))) |-> BitChar(row[n + j])]

RECURSIVE JoinLines(_, _)
\* "\n".join(lines), lines i..
JoinLines(lines, i) ==
    IF i > Len(lines) THEN << >>
    ELSE IF i = Len(lines) THEN lines[i]
    ELSE lines[i] \o <<"\n">> \o JoinLines(lines, i + 1)

\* sstr: the string as the sequence of its characters
sstr(M) ==
    LET n == M.n \div 2
    IN  JoinLines([i \in 1..M.m |-> RowStr(M.a[i], n)], 1)

InitStr ==
    /\ pc = "start"
    /\ \E m \in 0..MaxStrRows, n \in 0..MaxStrQubits :
          \E rows \in SeqsOfLen(SeqsOfLen(Bit, 2 * n), m) :
              h = [m |-> m, n |-> 2 * n, a |-> rows]
    /\ result = None
    /\ IdleRank /\ IdleVec /\ IdleConcat /\ IdleRatio

\* sstr(h)
Render ==
    /\ pc = "start"
    /\ result' = sstr(h)
    /\ pc' = "rendered"
    /\ UNCHANGED <<rankVars, vecVars, ops, h, ratioVars>>

\* sstr(to_symplectic(h)), h read as interleaved
RenderSymplectic ==
    /\ pc = "start"
    /\ result' = sstr(to_symplectic(h))
    /\ pc' = "rendered_block"
    /\ UNCHANGED <<rankVars, vecVars, ops, h, ratioVars>>

NextStr == Render \/ RenderSymplectic

SpecStr == InitStr /\ [][NextStr]_vars

\* the rendering of an m x 2n matrix: m lines of 2n + 1 characters, the
\* first n bits, '|', the last n bits, separated by newlines
RenderedAs(M, str) ==
    LET n == M.n \div 2
        w == 2 * n + 2
    IN  /\ Len(str) = IF M.m = 0 THEN 0 ELSE M.m * w - 1
        /\ \A i \in 1..M.m :
              /\ \A j \in 1..n : str[(i - 1) * w + j] = (IF M.a[i][j] = 0 THEN "_" ELSE "1")
              /\ str[(i - 1) * w + n + 1] = "|"
              /\ \A j \in 1..n :
                    str[(i - 1) * w + n + 1 + j] = (IF M.a[i][n + j] = 0 THEN "_" ELSE "1")
              /\ i < M.m => str[i * w] = "\n"

Example7 == [m |-> 2, n |-> 4, a |-> <<<<1, 0, 1, 0>>, <<0, 1, 0, 1>>>>]

\* C7 as stated: sstr renders the first n bits, '|', the last n bits of each
\* row with '_' and '1', rows joined by newlines, and [[1,0,1,0],[0,1,0,1]]
\* is rendered as the lines "1_|_1" and "_1|1_".
C7_SstrExampleAsStated ==
    pc = "rendered" =>
        /\ RenderedAs(h, result)
        /\ h = Example7 =>
              result = <<"1", "_", "|", "_", "1", "\n", "_", "1", "|", "1", "_">>

\* C7 (amended): the same format, and [[1,0,1,0],[0,1,0,1]] is rendered as
\* the lines "1_|1_" and "_1|_1".
C7_SstrFormat ==
    pc = "rendered" =>
        /\ RenderedAs(h, result)
        /\ h = Example7 =>
              result = <<"1", "_", "|", "1", "_", "\n", "_", "1", "|", "_", "1">>

C7_Witness ==
    /\ pc = "rendered"
    /\ h = Example7
    /\ Len(result) = 11

----------------------------------------------------------------------------
(* count_matching_stabilizers_ratio_all_pairs *)

\* pte.get_col_indices({leg}): the X and the Z column of the leg's qubit in
\* the interleaved parity-check matrix
get_col_indices(pte, leg) == <<2 * leg, 2 * leg + 1>>

RECURSIVE FlattenIdx(_, _, _)
FlattenIdx(pte, legs, i) ==
    IF i > Len(legs) THEN << >>
    ELSE get_col_indices(pte, legs[i]) \o FlattenIdx(pte, legs, i + 1)

\* np.concatenate([pte.get_col_indices({leg}) for leg in join_legs]):
\* raises ValueError on an empty list of arrays
ConcatIndices(pte, legs) ==
    IF Len(legs) = 0 THEN Raised("ValueError")
    ELSE Returned(FlattenIdx(pte, legs, 1))

\* pte.h[:, idx]
TakeCols(M, idx) ==
    [m |-> M.m, n |-> Len(idx),
     a |-> [i \in 1..M.m |-> [j \in 1..Len(idx) |-> M.a[i][idx[j] + 1]]]]

\* variant: the wider matrix is cut to the narrower one's column count
vstack_Truncating(A, B) ==
    LET n == IF A.n < B.n THEN A.n ELSE B.n
    IN  Returned([m |-> A.m + B.m, n |-> n,
                  a |-> [i \in 1..A.m |-> SubSeq(A.a[i], 1, n)]
                        \o [i \in 1..B.m |-> SubSeq(B.a[i], 1, n)]])

\* np.vstack([A, B]): raises ValueError unless the column counts agree
vstack(A, B) ==
    IF A.n # B.n THEN Raised("ValueError")
    ELSE Returned([m |-> A.m + B.m, n |-> A.n, a |-> A.a \o B.a])

\* np.array(stacked, dtype=np.uint8) & 1
Mod2(M) == [M EXCEPT !.a = [i \in 1..M.m |-> [j \in 1..M.n |-> M.a[i][j] % 2]]]

\* largest r for which the double 2 ** (-r) is not 0.0
MaxFloatExponent == 1074

\* float(2 ** (-r)) as the fraction num / den
Pow2Neg(r) ==
    IF r > MaxFloatExponent THEN [num |-> 0, den |-> 1]
    ELSE [num |-> 1, den |-> Pow2(r)]

\* the whole call: where it ends, the stacked matrix and the outcome
Ratio(p1, p2, legs1, legs2) ==
    LET idx1 == ConcatIndices(p1, legs1)
        idx2 == ConcatIndices(p2, legs2)
    IN  IF idx1.raised # "" THEN [at |-> "idx1", stacked |-> None, out |-> idx1]
        ELSE IF idx2.raised # "" THEN [at |-> "idx2", stacked |-> None, out |-> idx2]
        ELSE LET join_legs_matrix1 == to_symplectic(TakeCols(p1.h, idx1.value))
                 join_legs_matrix2 == to_symplectic(TakeCols(p2.h, idx2.value))
                 st == vstack(join_legs_matrix1, join_legs_matrix2)
             IN  IF st.raised # "" THEN [at |-> "vstack", stacked |-> None, out |-> st]
                 ELSE [at |-> "return", stacked |-> Mod2(st.value),
                       out |-> Returned(Pow2Neg(rank_gf2(Mod2(st.value))))]

\* pte is a component with one leg: its interleaved parity-check matrix has
\* the X and the Z column of qubit 0
Component(pte, maxRows) ==
    \E m \in 0..maxRows :
        \E rows \in SeqsOfLen(SeqsOfLen(Bit, 2), m) :
            pte = [h |-> [m |-> m, n |-> 2, a |-> rows], n |-> 1]

InitRatio ==
    /\ pc = "start"
    /\ Component(pte1, MaxPteRows1)
    /\ Component(pte2, MaxPteRows2)
    /\ join_legs1 \in SeqsUpTo(0..(pte1.n - 1), MaxLegs)
    /\ join_legs2 \in SeqsUpTo(0..(pte2.n - 1), MaxLegs)
    /\ stacked = None
    /\ result = None
    /\ IdleRank /\ IdleVec /\ IdleConcat /\ IdleStr

\* a call that gets through np.vstack and returns the ratio
RatioReturns ==
    /\ pc = "start"
    /\ LET r == Ratio(pte1, pte2, join_legs1, join_legs2)
       IN  /\ r.at = "return"
           /\ stacked' = r.stacked
           /\ result' = r.out
    /\ pc' = "returned"
    /\ UNCHANGED <<rankVars, vecVars, ops, h, pte1, pte2, join_legs1, join_legs2>>

\* a call that ends in an exception
RatioRaises ==
    /\ pc = "start"
    /\ LET r == Ratio(pte1, pte2, join_legs1, join_legs2)
       IN  /\ r.at # "return"
           /\ stacked' = r.stacked
           /\ result' = r.out
           /\ pc' = "raised_" \o r.at
    /\ UNCHANGED <<rankVars, vecVars, ops, h, pte1, pte2, join_legs1, join_legs2>>

NextRatio == RatioReturns \/ RatioRaises

SpecRatio == InitRatio /\ [][NextRatio]_vars

\* the columns of pte.h resolved from the legs, in the order supplied
JoinedColumn(legs, c) ==
    LET leg == legs[(c \div 2) + 1]
    IN  2 * leg + (c % 2)

\* block layout of the joined columns: even positions, then odd positions
BlockOf(pte, legs) ==
    LET c == 2 * Len(legs)
        half == (c + 1) \div 2
    IN  [i \in 1..pte.h.m |->
            [j \in 1..c |->
                LET pos == IF j <= half THEN 2 * (j - 1) ELSE 2 * (j - half - 1) + 1
                IN  pte.h.a[i][JoinedColumn(legs, pos) + 1] % 2]]

\* component 1's rows above component 2's
ExpectedStacked ==
    [m |-> pte1.h.m + pte2.h.m, n |-> 2 * Len(join_legs1),
     a |-> BlockOf(pte1, join_legs1) \o BlockOf(pte2, join_legs2)]

JoinedAllZero ==
    \A i \in 1..ExpectedStacked.m : ExpectedStacked.a[i] = ZeroVec(ExpectedStacked.n)

C6_StackingFails ==
    (/\ pc # "start"
     /\ Len(join_legs1) > 0 /\ Len(join_legs2) > 0
     /\ Len(FlattenIdx(pte1, join_legs1, 1)) # Len(FlattenIdx(pte2, join_legs2, 1))) =>
        /\ pc = "raised_vstack"
        /\ result = Raised("ValueError")
        /\ stacked = None

C6_Witness ==
    /\ pc = "raised_vstack"
    /\ Len(join_legs1) = 2 /\ Len(join_legs2) = 1
    /\ pte1.h.m = 2 /\ pte2.h.m = 1
    /\ result = Raised("ValueError")

====
